---- MODULE Spec2Model ----
(***************************************************************************)
(* A model of nnkit: variable nodes (NetVar), operator nodes (NetOp and    *)
(* its subclasses) and the backward traversal that accumulates gradients.  *)
(*                                                                         *)
(* Numbers are exact rationals <<n, d>> (d > 0, lowest terms): float32     *)
(* rounding is not modelled.  A numpy array is a record [nd, rows]: nd is  *)
(* the number of dimensions (0, 1 or 2), rows the elements; nd = -1 is     *)
(* Python's None and nd = -2 stands for "the expression raised".           *)
(***************************************************************************)
EXTENDS Integers, Sequences, FiniteSets, TLC

VARIABLES heap, pre, last, calls, nback, nset, topology, layers, ret, fwdBatch, opt,
          gen

vars == <<heap, pre, last, calls, nback, nset, topology, layers, ret, fwdBatch, opt,
          gen>>

(***************************************************************************)
(* Bounds of the model: the nodes constructed and the backward passes run  *)
(* in a behaviour of each specification.                                   *)
(***************************************************************************)
MaxNodes == 4
MaxBacks == 2
OpsMaxNodes == 3
OpsMaxBacks == 1
VarMaxNodes == 2
VarMaxBacks == 1
VarMaxSets == 1
FFNMaxVars == 3
FFNMaxLayers == 2
FFNMaxNodes == 4
FFNMaxBacks == 2
OptMaxNodes == 2
OptMaxBacks == 2
OptMaxParams == 1
OptMaxSteps == 1
LossMaxNodes == 4
LossMaxSets == 1
LossMaxBacks == 1
BNMaxNodes == 4
BNMaxBacks == 1
BatchMaxLen == 4

(***************************************************************************)
(* Rational arithmetic.                                                    *)
(***************************************************************************)
Abs(n) == IF n < 0 THEN -n ELSE n

RECURSIVE GCD(_, _)
GCD(a, b) == IF b = 0 THEN a ELSE GCD(b, a % b)

RNorm(n, d) ==
    LET s == IF d < 0 THEN -1 ELSE 1
        g == GCD(Abs(n), Abs(d))
    IN  IF n = 0 THEN <<0, 1>> ELSE <<(s * n) \div g, (s * d) \div g>>

R(n) == <<n, 1>>
RAdd(a, b) == RNorm(a[1] * b[2] + b[1] * a[2], a[2] * b[2])
RSub(a, b) == RNorm(a[1] * b[2] - b[1] * a[2], a[2] * b[2])
RMul(a, b) == RNorm(a[1] * b[1], a[2] * b[2])
RDiv(a, b) == RNorm(a[1] * b[2], a[2] * b[1])

RLe(a, b) == a[1] * b[2] <= b[1] * a[2]

\* The integer square root of n >= 0, searched between lo and hi.
RECURSIVE ISqrtIn(_, _, _)
ISqrtIn(n, lo, hi) ==
    IF lo >= hi THEN lo
    ELSE LET mid == (lo + hi + 1) \div 2
         IN  IF mid * mid <= n THEN ISqrtIn(n, mid, hi) ELSE ISqrtIn(n, lo, mid - 1)

ISqrt(n) == ISqrtIn(n, 0, IF n < 46340 THEN n ELSE 46340)

\* The square root of a rational a >= 0: exact when numerator and
\* denominator are squares; otherwise the root of a, taken to a denominator
\* of at most 10000, rounded down to a multiple of 1/100.
RSqrt(a) ==
    IF ISqrt(a[1]) * ISqrt(a[1]) = a[1] /\ ISqrt(a[2]) * ISqrt(a[2]) = a[2]
    THEN <<ISqrt(a[1]), ISqrt(a[2])>>
    ELSE LET k == (a[2] \div 10000) + 1
         IN  RNorm(ISqrt(((a[1] \div k) * 10000) \div (a[2] \div k)), 100)

RECURSIVE RSumSeq(_)
RSumSeq(s) == IF s = <<>> THEN R(0) ELSE RAdd(s[1], RSumSeq(Tail(s)))

(***************************************************************************)
(* numpy arrays.                                                           *)
(***************************************************************************)
None == [nd |-> -1, rows |-> <<>>]
Raised == [nd |-> -2, rows |-> <<>>]
Arr0(r) == [nd |-> 0, rows |-> <<<<r>>>>]
Arr1(row) == [nd |-> 1, rows |-> <<row>>]
Arr2(rows) == [nd |-> 2, rows |-> rows]

IsArr(a) == a.nd >= 0
NRows(a) == Len(a.rows)
NCols(a) == Len(a.rows[1])

\* ndarray.shape: () for a 0-d array, (c,) for 1-d, (r, c) for 2-d.
Shape(a) ==
    IF a.nd = 0 THEN <<>>
    ELSE IF a.nd = 1 THEN <<NCols(a)>>
    ELSE <<NRows(a), NCols(a)>>

Max(a, b) == IF a >= b THEN a ELSE b

\* An elementwise binary ufunc with numpy's broadcasting: the shapes are
\* aligned on the right, and two lengths agree when equal or when one is 1.
\* An operand that is None, or shapes that do not broadcast, raise.
Scalar(op, x, y) ==
    CASE op = "+" -> RAdd(x, y)
      [] op = "-" -> RSub(x, y)
      [] op = "*" -> RMul(x, y)
      [] op = "/" -> RDiv(x, y)
      [] op = "max" -> IF RLe(x, y) THEN y ELSE x
      [] op = "<=" -> IF RLe(x, y) THEN <<1, 1>> ELSE <<0, 1>>
      [] op = ">" -> IF RLe(x, y) THEN <<0, 1>> ELSE <<1, 1>>

BinOp(op, a, b) ==
    IF ~IsArr(a) \/ ~IsArr(b) THEN Raised
    ELSE LET ra == NRows(a)
             rb == NRows(b)
             ca == NCols(a)
             cb == NCols(b)
         IN  IF ~(ra = rb \/ ra = 1 \/ rb = 1) \/ ~(ca = cb \/ ca = 1 \/ cb = 1)
             THEN Raised
             ELSE [nd |-> Max(a.nd, b.nd),
                   rows |-> [i \in 1..Max(ra, rb) |-> [j \in 1..Max(ca, cb) |->
                       Scalar(op,
                              a.rows[IF ra = 1 THEN 1 ELSE i][IF ca = 1 THEN 1 ELSE j],
                              b.rows[IF rb = 1 THEN 1 ELSE i][IF cb = 1 THEN 1 ELSE j])]]]

NpAdd(a, b) == BinOp("+", a, b)
NpSub(a, b) == BinOp("-", a, b)
NpMul(a, b) == BinOp("*", a, b)
NpDiv(a, b) == BinOp("/", a, b)

\* An elementwise function of one array; of None it raises.
Map1(f, a) ==
    IF ~IsArr(a) THEN Raised
    ELSE [nd |-> a.nd,
          rows |-> [i \in 1..NRows(a) |-> [j \in 1..NCols(a) |->
              CASE f = "sqrt" -> RSqrt(a.rows[i][j])
                [] f = "abs" -> <<Abs(a.rows[i][j][1]), a.rows[i][j][2]>>
                [] f = "sign" -> IF a.rows[i][j][1] > 0 THEN <<1, 1>>
                                 ELSE IF a.rows[i][j][1] < 0 THEN <<-1, 1>>
                                 ELSE <<0, 1>>
                [] f = "+1e-8" -> IF a.rows[i][j][1] = 0 THEN <<1, 100000000>>
                                  ELSE a.rows[i][j]]]]

NpSqrt(a) == Map1("sqrt", a)
NpAbs(a) == Map1("abs", a)
NpSign(a) == Map1("sign", a)

\* a + 1e-8: the term is kept where a is 0, where it decides the result,
\* and dropped elsewhere (a relative change below 1e-5 for the values here).
AddEps(a) == Map1("+1e-8", a)

NpMaximum(a, b) == BinOp("max", a, b)
NpLessEqual(a, b) == BinOp("<=", a, b)
NpGreater(a, b) == BinOp(">", a, b)

\* np.where(c, a, b), c holding 1 for True and 0 for False: a where c, b
\* elsewhere, the three arrays broadcast together.
NpWhere(c, a, b) ==
    BinOp("+", BinOp("*", c, a), BinOp("*", BinOp("-", Arr0(<<1, 1>>), c), b))

\* a += v and a -= v on an ndarray a: the result r is written into a, so
\* the broadcast shape has to be a's own shape; None += v raises TypeError.
InPlace(a, r) ==
    IF r.nd < 0 THEN Raised ELSE IF Shape(r) # Shape(a) THEN Raised ELSE r

IAdd(a, v) == InPlace(a, NpAdd(a, v))

ISub(a, v) == InPlace(a, NpSub(a, v))

\* ndarray.T of a 2-d array (None has no attribute T).
Transpose(a) ==
    IF a.nd # 2 THEN (IF a.nd >= 0 THEN a ELSE Raised)
    ELSE Arr2([j \in 1..NCols(a) |-> [i \in 1..NRows(a) |-> a.rows[i][j]]])

\* a @ b for 2-d operands; a 0-d operand or None raises, and so do inner
\* dimensions that disagree.
MatMul(a, b) ==
    IF a.nd # 2 \/ b.nd # 2 THEN Raised
    ELSE IF NCols(a) # NRows(b) THEN Raised
    ELSE Arr2([i \in 1..NRows(a) |-> [j \in 1..NCols(b) |->
             RSumSeq([k \in 1..NCols(a) |-> RMul(a.rows[i][k], b.rows[k][j])])]])

\* np.sum(a, axis=0): the column sums, one dimension less; axis 0 of a 0-d
\* array is out of bounds.
SumAxis0(a) ==
    IF a.nd = 2 THEN Arr1([j \in 1..NCols(a) |->
                        RSumSeq([i \in 1..NRows(a) |-> a.rows[i][j]])])
    ELSE IF a.nd = 1 THEN Arr0(RSumSeq(a.rows[1]))
    ELSE Raised

\* np.mean(np.sum(a, axis=1)) of a 2-d array: a scalar, here a 0-d array.
MeanRowSums(a) ==
    IF a.nd # 2 THEN Raised
    ELSE Arr0(RDiv(RSumSeq([i \in 1..NRows(a) |-> RSumSeq(a.rows[i])]),
                   R(NRows(a))))

\* np.mean(a, axis=0) of a 2-d array: the column means, one dimension less.
MeanAxis0(a) ==
    IF a.nd # 2 THEN Raised ELSE NpDiv(SumAxis0(a), Arr0(R(NRows(a))))

Fill(a, r) == [nd |-> a.nd, rows |-> [i \in 1..NRows(a) |-> [j \in 1..NCols(a) |-> r]]]

\* np.zeros_like(a) / np.ones_like(a): a's shape; of None, a 0-d array.
ZerosLike(a) == IF IsArr(a) THEN Fill(a, R(0)) ELSE Arr0(R(0))
OnesLike(a) == IF IsArr(a) THEN Fill(a, R(1)) ELSE Arr0(R(1))

\* np.array(data, dtype, copy=False, ndmin=2): at least two dimensions,
\* the missing ones prepended with length 1.
AsArray2(a) == IF IsArr(a) THEN Arr2(a.rows) ELSE a

\* len(a): the number of rows of a 2-d array (0 stands for "raised").
PyLen(a) == IF a.nd = 2 THEN NRows(a) ELSE IF a.nd = 1 THEN NCols(a) ELSE 0

(***************************************************************************)
(* Nodes.  The heap is the sequence of the nodes constructed so far; a     *)
(* node is named by its position.  kind is the node's class, parents the   *)
(* positions of its parent nodes, cache what the operator saved at forward *)
(* time (b: a batch size, arrs: arrays).                                   *)
(***************************************************************************)
NoCache == [b |-> 0, arrs |-> <<>>]

Node(kind, data, g, parents, cache) ==
    [kind |-> kind, data |-> data, g |-> g, parents |-> parents, cache |-> cache]

IsOp(h, n) == h[n].kind # "NetVar"

\* NetVar.reset: the gradient becomes zeros shaped like the value, or None.
resetG(data) == IF data.nd < 0 THEN None ELSE ZerosLike(data)

reset(h, n) == [h EXCEPT ![n].g = resetG(h[n].data)]

\* (mutant) a data setter that leaves the gradient as it was
setData_keepGradient(h, n, d) == [h EXCEPT ![n].data = AsArray2(d)]

\* The data setter: the value is coerced to two dimensions (None stays
\* None), and the gradient is reset.
setData(h, n, d) == reset([h EXCEPT ![n].data = AsArray2(d)], n)

\* NetVar.__init__ / NetOp.__init__: a new node holding data, gradient reset.
NewNode(h, kind, data, parents, cache) ==
    LET n == Len(h) + 1
        h1 == Append(h, Node(kind, None, None, parents, cache))
    IN  IF data.nd < 0 THEN h1 ELSE setData(h1, n, data)

(***************************************************************************)
(* The forward value of each operator, from its parents' current values.   *)
(***************************************************************************)
Multiply_forward(h, x, w) == MatMul(h[x].data, h[w].data)

Add_forward(h, x, b) == NpAdd(h[x].data, h[b].data)

L2Loss_forward(h, p, t) ==
    LET d == NpSub(h[p].data, h[t].data)
    IN  NpMul(Arr0(<<1, 2>>), MeanRowSums(NpMul(d, d)))

Dropout_forward(h, x, k, mask) == NpDiv(NpMul(h[x].data, mask), Arr0(k))

\* np.maximum(s * x.data, x.data)
LReLU_forward(h, x, s) == NpMaximum(NpMul(Arr0(s), h[x].data), h[x].data)

\* np.where(abs <= d, 0.5 * np.square(diff), d*abs - 0.5*(d**2))
HuberLoss_loss(diff, d) ==
    NpWhere(NpLessEqual(NpAbs(diff), Arr0(d)),
            NpMul(Arr0(<<1, 2>>), NpMul(diff, diff)),
            NpSub(NpMul(Arr0(d), NpAbs(diff)), Arr0(RMul(<<1, 2>>, RMul(d, d)))))

\* np.mean(np.sum(loss, axis=1)) for diff = p.data - t.data
HuberLoss_forward(h, p, t, d) == MeanRowSums(HuberLoss_loss(NpSub(h[p].data, h[t].data), d))

(***************************************************************************)
(* BatchNorm's constructor.  A construction state is [ok, h]: with useAvg  *)
(* false the constructor assigns the values of the running nodes before    *)
(* the value of the new node is computed.                                  *)
(***************************************************************************)
\* (mutant) the weights of the blend exchanged
Blend_swapped(old, new) ==
    NpAdd(NpMul(Arr0(<<1, 10>>), old), NpMul(Arr0(<<9, 10>>), new))

\* 0.9 * old + 0.1 * new
Blend(old, new) ==
    NpAdd(NpMul(Arr0(<<9, 10>>), old), NpMul(Arr0(<<1, 10>>), new))

\* n.data = d inside a constructor (d raised: the constructor ends)
Assign(st, n, d) ==
    IF ~st.ok \/ d.nd < 0 THEN [st EXCEPT !.ok = FALSE]
    ELSE [st EXCEPT !.h = setData(st.h, n, d)]

BatchNorm_mean(h, x, avgMean, useAvg) ==
    IF useAvg THEN h[avgMean].data ELSE MeanAxis0(h[x].data)

\* after the first if/else: avgMean.data = 0.9 * avgMean.data + 0.1 * mean
BatchNorm_setMean(h, x, avgMean, useAvg) ==
    IF useAvg THEN [ok |-> TRUE, h |-> h]
    ELSE Assign([ok |-> TRUE, h |-> h], avgMean,
                Blend(h[avgMean].data, MeanAxis0(h[x].data)))

BatchNorm_var(h, avgVar, xCenter, useAvg) ==
    IF useAvg THEN h[avgVar].data ELSE MeanAxis0(NpMul(xCenter, xCenter))

\* after the second if/else: avgVar.data = 0.9 * avgVar.data + 0.1 * var
BatchNorm_setVar(st, avgVar, xCenter, useAvg) ==
    IF useAvg \/ ~st.ok THEN st
    ELSE Assign(st, avgVar,
                Blend(st.h[avgVar].data, MeanAxis0(NpMul(xCenter, xCenter))))

\* xCenter / np.sqrt(var + 1e-8)
BatchNorm_xNormalized(xCenter, var) == NpDiv(xCenter, NpSqrt(AddEps(var)))

\* xNormalized * gamma.data + beta.data
BatchNorm_value(h, xNormalized, gamma, beta) ==
    NpAdd(NpMul(xNormalized, h[gamma].data), h[beta].data)

\* The result of the constructor: [ok, h, value, cache].
BatchNorm_result(st, value, var, xCenter, xNormalized) ==
    [ok |-> st.ok /\ value.nd >= 0, h |-> st.h, value |-> value,
     cache |-> [b |-> 0, arrs |-> <<var, xCenter, xNormalized>>]]

BatchNorm_finish(st, var, xCenter, gamma, beta) ==
    BatchNorm_result(st,
        BatchNorm_value(st.h, BatchNorm_xNormalized(xCenter, var), gamma, beta),
        var, xCenter, BatchNorm_xNormalized(xCenter, var))

BatchNorm_centered(st, xCenter, gamma, beta, avgVar, useAvg) ==
    BatchNorm_finish(BatchNorm_setVar(st, avgVar, xCenter, useAvg),
                     BatchNorm_var(st.h, avgVar, xCenter, useAvg),
                     xCenter, gamma, beta)

BatchNorm_withMean(st, mean, x, gamma, beta, avgVar, useAvg) ==
    BatchNorm_centered(st, NpSub(st.h[x].data, mean), gamma, beta, avgVar, useAvg)

BatchNorm_forward(h, x, gamma, beta, avgVar, avgMean, useAvg) ==
    BatchNorm_withMean(BatchNorm_setMean(h, x, avgMean, useAvg),
                       BatchNorm_mean(h, x, avgMean, useAvg),
                       x, gamma, beta, avgVar, useAvg)

(***************************************************************************)
(* The backward pass.  A pass state is [ok, h, calls]: ok is FALSE once a  *)
(* statement has raised (what was assigned before stays), h is the heap,   *)
(* calls[n] counts the invocations of node n's _back.                      *)
(***************************************************************************)
\* n.g = r, r the result of an in-place operation (raised: the pass ends)
PutG(st, n, r) ==
    IF r.nd < 0 THEN [st EXCEPT !.ok = FALSE] ELSE [st EXCEPT !.h[n].g = r]

\* n.g += v
AddG(st, n, v) ==
    IF ~st.ok THEN st ELSE PutG(st, n, IAdd(st.h[n].g, v))

\* n.g -= v
SubG(st, n, v) ==
    IF ~st.ok THEN st ELSE PutG(st, n, ISub(st.h[n].g, v))

\* (mutant) the first statement accumulates into x.data
Multiply_back_intoData(st, n) ==
    LET x == st.h[n].parents[1]
        w == st.h[n].parents[2]
        r == IAdd(st.h[x].data, MatMul(st.h[n].g, Transpose(st.h[w].data)))
        s1 == IF r.nd < 0 THEN [st EXCEPT !.ok = FALSE] ELSE [st EXCEPT !.h[x].data = r]
    IN  AddG(s1, w, MatMul(Transpose(s1.h[x].data), s1.h[n].g))

\* (mutant) the two products go to the wrong parents
Multiply_back_swapped(st, n) ==
    LET x == st.h[n].parents[1]
        w == st.h[n].parents[2]
        s1 == AddG(st, x, MatMul(Transpose(st.h[x].data), st.h[n].g))
    IN  AddG(s1, w, MatMul(s1.h[n].g, Transpose(s1.h[w].data)))

Multiply_back(st, n) ==
    LET x == st.h[n].parents[1]
        w == st.h[n].parents[2]
        s1 == AddG(st, x, MatMul(st.h[n].g, Transpose(st.h[w].data)))
    IN  AddG(s1, w, MatMul(Transpose(s1.h[x].data), s1.h[n].g))

\* (mutant) b receives the column-wise mean of the gradient
Add_back_mean(st, n) ==
    LET x == st.h[n].parents[1]
        b == st.h[n].parents[2]
        s1 == AddG(st, x, st.h[n].g)
    IN  AddG(s1, b, NpDiv(SumAxis0(s1.h[n].g), Arr0(R(NRows(s1.h[n].g)))))

Add_back(st, n) ==
    LET x == st.h[n].parents[1]
        b == st.h[n].parents[2]
        s1 == AddG(st, x, st.h[n].g)
    IN  AddG(s1, b, SumAxis0(s1.h[n].g))

\* (mutant) t.g += dx
L2Loss_back_sameSign(st, n) ==
    LET p == st.h[n].parents[1]
        t == st.h[n].parents[2]
        b == st.h[n].cache.b
        dx == NpDiv(NpMul(st.h[n].g, NpSub(st.h[p].data, st.h[t].data)), Arr0(R(b)))
    IN  AddG(AddG(st, p, dx), t, dx)

L2Loss_back(st, n) ==
    LET p == st.h[n].parents[1]
        t == st.h[n].parents[2]
        b == st.h[n].cache.b
        dx == NpDiv(NpMul(st.h[n].g, NpSub(st.h[p].data, st.h[t].data)), Arr0(R(b)))
    IN  SubG(AddG(st, p, dx), t, dx)

\* (mutant) the gradient is scaled by 1/keepProb like the forward value
Dropout_back_scaled(st, n) ==
    LET x == st.h[n].parents[1]
        dropout == st.h[n].cache.arrs[1]
    IN  AddG(st, x, NpDiv(NpMul(st.h[n].g, dropout), Arr0(<<1, 2>>)))

Dropout_back(st, n) ==
    LET x == st.h[n].parents[1]
        dropout == st.h[n].cache.arrs[1]
    IN  AddG(st, x, NpMul(st.h[n].g, dropout))

\* LReLU._back: x.g += np.where(x.data > 0, self.g, s), s the cached slope
LReLU_back(st, n) ==
    AddG(st, st.h[n].parents[1],
         NpWhere(NpGreater(st.h[st.h[n].parents[1]].data, Arr0(R(0))),
                 st.h[n].g, st.h[n].cache.arrs[1]))

\* dx = np.where(abs <= d, diff, d * np.sign(diff)) / b, from the cached
\* diff, abs and d and the batch size b (b = 0: len() raised).
HuberLoss_dx(diff, abs, d, b) ==
    IF b = 0 THEN Raised
    ELSE NpDiv(NpWhere(NpLessEqual(abs, d), diff, NpMul(d, NpSign(diff))), Arr0(R(b)))

\* p.g += dx; t.g -= dx
PlusMinus(st, p, t, dx) == SubG(AddG(st, p, dx), t, dx)

\* HuberLoss._back: b = len(t.data), read when the pass runs
HuberLoss_back(st, n) ==
    PlusMinus(st, st.h[n].parents[1], st.h[n].parents[2],
              HuberLoss_dx(st.h[n].cache.arrs[1], st.h[n].cache.arrs[2],
                           st.h[n].cache.arrs[3],
                           PyLen(st.h[st.h[n].parents[2]].data)))

\* t1 * (t2 - t3 - t4) of BatchNorm._back, for the node's gradient g, the
\* cached var and xCenter, gamma's value and bSize = b (b = 0: len() raised).
BatchNorm_dx(g, var, xCenter, gammaData, b) ==
    IF b = 0 THEN Raised
    ELSE NpMul(NpMul(NpMul(Arr0(RDiv(R(1), R(b))), gammaData),
                     NpDiv(Arr0(R(1)), NpSqrt(AddEps(var)))),
               NpSub(NpSub(NpMul(Arr0(R(b)), g), SumAxis0(g)),
                     NpMul(NpMul(xCenter, NpDiv(Arr0(R(1)), AddEps(var))),
                           SumAxis0(NpMul(g, xCenter)))))

\* gamma.g += np.sum(self.g * xNormalized, axis=0); beta.g += np.sum(self.g,
\* axis=0); x.g += t1 * (t2 - t3 - t4), bSize = len(x.data) read when the
\* pass runs.
BatchNorm_back(st, n) ==
    AddG(AddG(AddG(st, st.h[n].parents[2],
                   SumAxis0(NpMul(st.h[n].g, st.h[n].cache.arrs[3]))),
              st.h[n].parents[3], SumAxis0(st.h[n].g)),
         st.h[n].parents[1],
         BatchNorm_dx(st.h[n].g, st.h[n].cache.arrs[1], st.h[n].cache.arrs[2],
                      st.h[st.h[n].parents[2]].data,
                      PyLen(st.h[st.h[n].parents[1]].data)))

\* The statements of a subclass's _back that come before super()._back().
LocalBack(st, n) ==
    CASE st.h[n].kind = "Multiply" -> Multiply_back(st, n)
      [] st.h[n].kind = "Add" -> Add_back(st, n)
      [] st.h[n].kind = "L2Loss" -> L2Loss_back(st, n)
      [] st.h[n].kind = "Dropout" -> Dropout_back(st, n)
      [] st.h[n].kind = "LReLU" -> LReLU_back(st, n)
      [] st.h[n].kind = "HuberLoss" -> HuberLoss_back(st, n)
      [] st.h[n].kind = "BatchNorm" -> BatchNorm_back(st, n)
      [] OTHER -> st

\* (mutant) the recursion enters every parent, variables included
OpParents_all(h, n, rev) == h[n].parents

\* The parents NetOp._back recurses into: those that are operators, in the
\* order listed (rev: the same list visited from its end).
OpParents(h, n, rev) ==
    LET ps == SelectSeq(h[n].parents, LAMBDA p : IsOp(h, p))
    IN  IF rev THEN [i \in 1..Len(ps) |-> ps[Len(ps) + 1 - i]] ELSE ps

RECURSIVE BackNode(_, _, _)
RECURSIVE BackParents(_, _, _)

\* p._back(*p.parents): the local step, then NetOp._back's loop.
BackNode(st, n, rev) ==
    LET s0 == [st EXCEPT !.calls[n] = @ + 1]
        s1 == LocalBack(s0, n)
    IN  IF ~s1.ok THEN s1 ELSE BackParents(s1, OpParents(s1.h, n, rev), rev)

BackParents(st, ps, rev) ==
    IF ps = <<>> \/ ~st.ok THEN st
    ELSE BackParents(BackNode(st, Head(ps), rev), Tail(ps), rev)

\* NetOp._back as the code runs it: parents in the order listed.
NetOp_back(st, n) == BackNode(st, n, FALSE)

NoCalls(h) == [i \in 1..Len(h) |-> 0]

\* NetOp.back: the node's own gradient becomes all ones, then _back.
NetOp_backFrom(h, n) ==
    NetOp_back([ok |-> TRUE,
                h |-> [h EXCEPT ![n].g = OnesLike(h[n].data)],
                calls |-> NoCalls(h)], n)

(***************************************************************************)
(* Operations.  Every action records the heap it started from in pre and   *)
(* what ran in last: op, the node it was about (0: none), ok = FALSE when  *)
(* the call raised, the array or number passed (arg) and FFN.back's reset  *)
(* flag.  ret is what the call returned (None: nothing).  fwdBatch[n] is   *)
(* a history value: len() of the value of node n's batch parent (the       *)
(* target of a loss, the input of a BatchNorm) when n was constructed, 0   *)
(* for the other nodes.                                                    *)
(***************************************************************************)
Ran(op, n, ok, arg, rs) == [op |-> op, n |-> n, ok |-> ok, arg |-> arg, reset |-> rs]

Nodes == 1..Len(heap)

Mat(rows) == Arr2([i \in 1..Len(rows) |-> [j \in 1..Len(rows[i]) |-> R(rows[i][j])]])

\* len(t.data) of the target t of a loss node n, as h holds it.
BatchOf(h, n) ==
    IF h[n].kind \in {"L2Loss", "HuberLoss"} THEN PyLen(h[h[n].parents[2]].data)
    ELSE IF h[n].kind = "BatchNorm" THEN PyLen(h[h[n].parents[1]].data)
    ELSE 0

\* fwdBatch after a call that left the heap h: the nodes the call constructed
\* are recorded, the others keep their entry.
Built(h) == fwdBatch \o [i \in 1..(Len(h) - Len(heap)) |-> BatchOf(h, Len(heap) + i)]

Step(op, n, ok, arg, h, c) ==
    /\ heap' = h
    /\ pre' = heap
    /\ last' = Ran(op, n, ok, arg, FALSE)
    /\ calls' = c
    /\ ret' = None
    /\ fwdBatch' = Built(heap')
    /\ UNCHANGED <<topology, layers, opt, gen>>

\* v = NetVar(d)
NewVar(D, cap) ==
    /\ Len(heap) < cap
    /\ \E d \in D :
         Step("NetVar", Len(heap) + 1, TRUE, d,
              NewNode(heap, "NetVar", d, <<>>, NoCache), calls)
    /\ UNCHANGED <<nback, nset>>

\* An operator's constructor: the forward value is computed first; when
\* that raises, no node is constructed.
Construct(kind, value, parents, cache, arg) ==
    IF value.nd < 0
    THEN Step(kind, 0, FALSE, arg, heap, calls)
    ELSE Step(kind, Len(heap) + 1, TRUE, arg,
              NewNode(heap, kind, value, parents, cache), calls)

\* Multiply(x, w)
NewMultiply(cap) ==
    /\ Len(heap) < cap
    /\ \E x \in Nodes, w \in Nodes :
         Construct("Multiply", Multiply_forward(heap, x, w), <<x, w>>, NoCache, None)
    /\ UNCHANGED <<nback, nset>>

\* Add(x, b)
NewAdd(cap) ==
    /\ Len(heap) < cap
    /\ \E x \in Nodes, b \in Nodes :
         Construct("Add", Add_forward(heap, x, b), <<x, b>>, NoCache, None)
    /\ UNCHANGED <<nback, nset>>

\* L2Loss(p, t): the cache is len(t.data).
NewL2Loss(cap) ==
    /\ Len(heap) < cap
    /\ \E p \in Nodes, t \in Nodes :
         Construct("L2Loss", L2Loss_forward(heap, p, t), <<p, t>>,
                   [b |-> PyLen(heap[t].data), arrs |-> <<>>], None)
    /\ UNCHANGED <<nback, nset>>

\* LReLU(x, s): the cache is the slope s.
NewLReLU(S, cap) ==
    /\ Len(heap) < cap
    /\ \E x \in Nodes, s \in S :
         Construct("LReLU", LReLU_forward(heap, x, s), <<x>>,
                   [b |-> 0, arrs |-> <<Arr0(s)>>], Arr0(s))
    /\ UNCHANGED <<nback, nset>>

\* HuberLoss(p, t, d): the cache is diff, abs and d.
NewHuberLoss(D, cap) ==
    /\ Len(heap) < cap
    /\ \E p \in Nodes, t \in Nodes, d \in D :
         Construct("HuberLoss", HuberLoss_forward(heap, p, t, d), <<p, t>>,
                   [b |-> 0,
                    arrs |-> <<NpSub(heap[p].data, heap[t].data),
                               NpAbs(NpSub(heap[p].data, heap[t].data)), Arr0(d)>>],
                   Arr0(d))
    /\ UNCHANGED <<nback, nset>>

\* What a BatchNorm constructor that ended as r leaves: the node (or the
\* exception) and the running nodes as the constructor assigned them.
BatchNormStep(r, parents, arg) ==
    IF r.ok
    THEN Step("BatchNorm", Len(heap) + 1, TRUE, arg,
              NewNode(r.h, "BatchNorm", r.value, parents, r.cache), calls)
    ELSE Step("BatchNorm", 0, FALSE, arg, r.h, calls)

\* BatchNorm(x, gamma, beta, avgVar, avgMean, useAvg) over the nodes built so
\* far (the model holds one BatchNorm node)
NewBatchNorm(cap) ==
    /\ Len(heap) < cap
    /\ \A n \in Nodes : heap[n].kind # "BatchNorm"
    /\ \E x \in Nodes, useAvg \in BOOLEAN :
         \E gamma \in Nodes, beta \in Nodes, avgVar \in Nodes, avgMean \in Nodes :
            BatchNormStep(BatchNorm_forward(heap, x, gamma, beta, avgVar, avgMean, useAvg),
                          <<x, gamma, beta>>,
                          [avgVar |-> avgVar, avgMean |-> avgMean, useAvg |-> useAvg])
    /\ UNCHANGED <<nback, nset>>

\* The masks np.random.rand(*shape) < k can give: every entry is True when
\* k = 1, and any array of booleans (0 or 1 here) when 0 < k < 1.
Masks(a, k) ==
    IF a.nd # 2 THEN {Raised}
    ELSE IF k = R(1) THEN {Fill(a, R(1))}
    ELSE {Arr2(m) : m \in [1..NRows(a) -> [1..NCols(a) -> {R(0), R(1)}]]}

\* Dropout(x, k): the cache is the mask drawn.
NewDropout(K, cap) ==
    /\ Len(heap) < cap
    /\ \E x \in Nodes, k \in K :
         \E mask \in Masks(heap[x].data, k) :
            Construct("Dropout", Dropout_forward(heap, x, k, mask), <<x>>,
                      [b |-> 0, arrs |-> <<mask>>], Arr0(k))
    /\ UNCHANGED <<nback, nset>>

\* n.data = d
SetValue(D, cap) ==
    /\ nset < cap
    /\ \E n \in Nodes, d \in D :
         Step("setValue", n, TRUE, d, setData(heap, n, d), calls)
    /\ nset' = nset + 1
    /\ UNCHANGED nback

\* n.reset()
ResetNode ==
    /\ \E n \in Nodes : Step("reset", n, TRUE, None, reset(heap, n), calls)
    /\ UNCHANGED <<nback, nset>>

\* n.back() on an operator node
Back(cap) ==
    /\ nback < cap
    /\ \E n \in Nodes :
         /\ IsOp(heap, n)
         /\ LET r == NetOp_backFrom(heap, n)
            IN  Step("back", n, r.ok, None, r.h, r.calls)
    /\ nback' = nback + 1
    /\ UNCHANGED nset

\* No generator was created yet.
NoGenerator ==
    [state |-> "none", data |-> <<<<>>, <<>>>>, size |-> 0, count |-> 0,
     bSize |-> 0, i |-> 0, out |-> <<>>]

NoOptimizer == [cls |-> "none", params |-> <<>>, m |-> <<>>, r |-> <<>>, steps |-> 0]

Init ==
    /\ heap = <<>>
    /\ pre = <<>>
    /\ last = Ran("init", 0, TRUE, None, FALSE)
    /\ calls = <<>>
    /\ nback = 0
    /\ nset = 0
    /\ topology = <<>>
    /\ layers = <<>>
    /\ ret = None
    /\ fwdBatch = <<>>
    /\ opt = NoOptimizer
    /\ gen = NoGenerator

(***************************************************************************)
(* Spec: graphs of variables, Add and Dropout nodes over 1x1 values, and   *)
(* backward passes from any operator node.                                 *)
(***************************************************************************)
GraphData == {Mat(<<<<1>>>>)}
GraphKeep == {<<1, 2>>}

Next ==
    \/ NewVar(GraphData, MaxNodes)
    \/ NewAdd(MaxNodes)
    \/ NewDropout(GraphKeep, MaxNodes)
    \/ ResetNode
    \/ Back(MaxBacks)

Spec == Init /\ [][Next]_vars

(***************************************************************************)
(* SpecOps: the operator library over small matrices: one or two           *)
(* variables, an operator on them, a backward pass.                        *)
(***************************************************************************)
OpsData == {Mat(<<<<1, 2>>>>), Mat(<<<<1>>, <<1>>>>), Mat(<<<<2>>>>), Mat(<<<<0>>>>)}
OpsKeep == {<<1, 2>>}

NextOps ==
    \/ NewVar(OpsData, OpsMaxNodes)
    \/ NewMultiply(OpsMaxNodes)
    \/ NewAdd(OpsMaxNodes)
    \/ NewL2Loss(OpsMaxNodes)
    \/ NewDropout(OpsKeep, OpsMaxNodes)
    \/ Back(OpsMaxBacks)

SpecOps == Init /\ [][NextOps]_vars

(***************************************************************************)
(* SpecVar: the variable-node operations (construction, setValue, reset)   *)
(* on variables and on operators, interleaved with backward passes.        *)
(***************************************************************************)
VarData == {None, Mat(<<<<1>>>>), Mat(<<<<1, 2>>>>)}

NextVar ==
    \/ NewVar(VarData, VarMaxNodes)
    \/ NewDropout(GraphKeep, VarMaxNodes)
    \/ SetValue(VarData, VarMaxSets)
    \/ ResetNode
    \/ Back(VarMaxBacks)

SpecVar == Init /\ [][NextVar]_vars

(***************************************************************************)
(* SpecLoss: LReLU and the losses: variables, LReLU, HuberLoss and L2Loss  *)
(* nodes on them (a loss of a loss gives an upstream gradient other than   *)
(* 1), a value replaced, a backward pass.                                  *)
(***************************************************************************)
LossData == {Mat(<<<<-1>>>>), Mat(<<<<2>>>>), Mat(<<<<2>>, <<2>>>>)}
LossSlopes == {<<1, 2>>}
LossDeltas == {<<1, 1>>}

NextLoss ==
    \/ NewVar(LossData, LossMaxNodes)
    \/ NewLReLU(LossSlopes, LossMaxNodes)
    \/ NewHuberLoss(LossDeltas, LossMaxNodes)
    \/ NewL2Loss(LossMaxNodes)
    \/ SetValue(LossData, LossMaxSets)
    \/ Back(LossMaxBacks)

SpecLoss == Init /\ [][NextLoss]_vars

(***************************************************************************)
(* SpecBN: variables, a BatchNorm node over them, a backward pass.         *)
(***************************************************************************)
BNData == {Mat(<<<<1>>>>), Mat(<<<<1>>, <<3>>>>)}

NextBN ==
    \/ NewVar(BNData, BNMaxNodes)
    \/ NewBatchNorm(BNMaxNodes)
    \/ Back(BNMaxBacks)

SpecBN == Init /\ [][NextBN]_vars

(***************************************************************************)
(* miniBatch.  gen is the generator object: its arguments (a keyword that  *)
(* was not passed is 0, which kwargs.get(...) treats like an absent one),  *)
(* the batch size and the loop index of its frame, the tuples it has       *)
(* yielded so far, and its state: "created" before the first next(),       *)
(* "running" while suspended at the yield, "done" after StopIteration,     *)
(* "raised" after an exception.                                            *)
(***************************************************************************)
Min(a, b) == IF a <= b THEN a ELSE b

\* int(np.ceil(n / c)) for n >= 0, c >= 1
CeilDiv(n, c) == (n + c - 1) \div c

\* s[i:i + b] for 0 <= i, b >= 1
Slice(s, i, b) == SubSeq(s, i + 1, Min(i + b, Len(s)))

\* The batch size the two if branches leave: -1 when neither assigns bSize
\* (the loop header then raises UnboundLocalError).
miniBatch_bSize(n, size, count) ==
    IF size # 0 THEN size
    ELSE IF count # 0 THEN CeilDiv(n, count)
    ELSE -1

\* The loop at index i with batch size b: range() with a step of 0 raises,
\* an index inside the data yields a tuple, an index past it ends the loop.
miniBatch_loop(g, b, i) ==
    IF b <= 0 THEN [g EXCEPT !.state = "raised", !.bSize = b]
    ELSE IF i < Len(g.data[1])
    THEN [g EXCEPT !.state = "running", !.bSize = b, !.i = i,
                   !.out = Append(g.out, <<Slice(g.data[1], i, b),
                                           Slice(g.data[2], i, b), i>>)]
    ELSE [g EXCEPT !.state = "done", !.bSize = b, !.i = i]

\* gen = miniBatch(data, size=.., count=..): the body has not started
MiniBatch(Items, Targets, Sizes, Counts, maxLen) ==
    /\ gen.state = "none"
    /\ \E n \in 0..maxLen, size \in Sizes, count \in Counts :
         \E inputs \in [1..n -> Items], targets \in [1..n -> Targets] :
            gen' = [NoGenerator EXCEPT !.state = "created",
                                       !.data = <<inputs, targets>>,
                                       !.size = size, !.count = count]
    /\ UNCHANGED <<heap, pre, last, calls, nback, nset, topology, layers, ret,
                   fwdBatch, opt>>

\* next(gen): the first call runs the body up to the first yield, the later
\* ones resume the loop at the next index
NextBatch ==
    /\ gen.state \in {"created", "running"}
    /\ gen' = IF gen.state = "created"
              THEN miniBatch_loop(gen, miniBatch_bSize(Len(gen.data[1]),
                                                       gen.size, gen.count), 0)
              ELSE miniBatch_loop(gen, gen.bSize, gen.i + gen.bSize)
    /\ UNCHANGED <<heap, pre, last, calls, nback, nset, topology, layers, ret,
                   fwdBatch, opt>>

BatchItems == {1, 2}
BatchTargets == {7, 8}

NextMB ==
    \/ MiniBatch(BatchItems, BatchTargets, 0..BatchMaxLen, 0..BatchMaxLen, BatchMaxLen)
    \/ NextBatch

SpecBatch == Init /\ [][NextMB]_vars

(***************************************************************************)
(* FFN.  topology is the list the FFN was created with: an entry is        *)
(* [cls, args], the operator class and the nodes passed after the previous *)
(* layer.  layers are the operators the last forward call constructed.     *)
(***************************************************************************)
Entry(cls, args) == [cls |-> cls, args |-> args]

\* FFN.vars: the arguments of the topology whose type is NetVar.
FFN_vars(h, topo) ==
    {p \in UNION {{e.args[i] : i \in 1..Len(e.args)} : e \in {topo[j] : j \in 1..Len(topo)}} :
        h[p].kind = "NetVar"}

\* n[0](x, *n[1:]) for one topology entry: [ok, h], the node appended last.
FFN_construct(h, e, x) ==
    LET a == e.args[1]
        value == CASE e.cls = "Multiply" -> Multiply_forward(h, x, a)
                   [] e.cls = "Add" -> Add_forward(h, x, a)
                   [] e.cls = "L2Loss" -> L2Loss_forward(h, x, a)
                   [] OTHER -> Raised
        cache == IF e.cls = "L2Loss" THEN [b |-> PyLen(h[a].data), arrs |-> <<>>]
                 ELSE NoCache
    IN  IF value.nd < 0 THEN [ok |-> FALSE, h |-> h]
        ELSE [ok |-> TRUE, h |-> NewNode(h, e.cls, value, <<x, a>>, cache)]

\* The loop of FFN.__call__ over the topology, after layers.clear(): a
\* constructor that raises ends the call, the layers appended so far stay.
\* The call returns x.data, x being the last node constructed (the input
\* when the topology is empty).
RECURSIVE FFN_forward(_, _, _)
FFN_forward(st, topo, x) ==
    IF topo = <<>> THEN [st EXCEPT !.ret = st.h[x].data]
    ELSE LET r == FFN_construct(st.h, Head(topo), x)
         IN  IF ~r.ok THEN [st EXCEPT !.ok = FALSE]
             ELSE FFN_forward([ok |-> TRUE, h |-> r.h,
                               layers |-> Append(st.layers, Len(r.h)),
                               ret |-> None],
                              Tail(topo), Len(r.h))

\* (mutant) a forward call that appends to the layers of the call before
FFN_call_noClear(h, ls, topo, x) ==
    FFN_forward([ok |-> TRUE, h |-> h, layers |-> ls, ret |-> None], topo, x)

\* FFN.__call__: layers.clear(), the loop, return x.data.
FFN_call(h, ls, topo, x) ==
    FFN_forward([ok |-> TRUE, h |-> h, layers |-> <<>>, ret |-> None], topo, x)

\* FFN.reset: the loop is over self.params, an attribute FFN never sets
\* (its variables are the property vars): evaluating it raises
\* AttributeError before any node is reset.
FFN_reset(h) == [ok |-> FALSE, h |-> h, calls |-> NoCalls(h)]

\* FFN.back(reset): self.reset() when reset is true, then back() on the
\* last layer (layers[-1] of an empty list raises IndexError).
FFN_back(h, ls, rs) ==
    LET r == IF rs THEN FFN_reset(h) ELSE [ok |-> TRUE, h |-> h, calls |-> NoCalls(h)]
    IN  IF ~r.ok THEN r
        ELSE IF ls = <<>> THEN [r EXCEPT !.ok = FALSE]
        ELSE NetOp_backFrom(r.h, ls[Len(ls)])

FFNStep(op, n, ok, rs, h, c, ls, rv) ==
    /\ heap' = h
    /\ pre' = heap
    /\ last' = Ran(op, n, ok, None, rs)
    /\ calls' = c
    /\ layers' = ls
    /\ ret' = rv
    /\ fwdBatch' = Built(heap')
    /\ UNCHANGED <<opt, gen>>

\* net = FFN(*topology), over variables constructed before (the model
\* holds one FFN)
NewFFN(Classes, maxLayers) ==
    /\ topology = <<>>
    /\ \E len \in 1..maxLayers :
         \E topo \in [1..len -> {Entry(c, <<a>>) : c \in Classes,
                                 a \in {n \in Nodes : ~IsOp(heap, n)}}] :
            /\ topology' = topo
            /\ FFNStep("FFN", 0, TRUE, FALSE, heap, calls, <<>>, None)
    /\ UNCHANGED <<nback, nset>>

\* net(x)
FFNCall(cap) ==
    /\ topology # <<>>
    /\ Len(heap) + Len(topology) <= cap
    /\ \E x \in Nodes :
         /\ ~IsOp(heap, x)
         /\ LET r == FFN_call(heap, layers, topology, x)
            IN  FFNStep("FFN.call", x, r.ok, FALSE, r.h, calls, r.layers, r.ret)
    /\ UNCHANGED <<nback, nset, topology>>

\* net.back(reset)
FFNBack(cap) ==
    /\ topology # <<>>
    /\ nback < cap
    /\ \E rs \in BOOLEAN :
         LET r == FFN_back(heap, layers, rs)
         IN  FFNStep("FFN.back", 0, r.ok, rs, r.h, r.calls, layers, None)
    /\ nback' = nback + 1
    /\ UNCHANGED <<nset, topology>>

\* net.reset()
FFNReset ==
    /\ topology # <<>>
    /\ LET r == FFN_reset(heap)
       IN  FFNStep("FFN.reset", 0, r.ok, FALSE, r.h, calls, layers, None)
    /\ UNCHANGED <<nback, nset, topology>>

(***************************************************************************)
(* SpecFFN: variables, an FFN over them, forward calls and backward        *)
(* passes through the FFN.                                                 *)
(***************************************************************************)
FFNData == {Mat(<<<<1>>>>), Mat(<<<<1, 2>>>>)}
FFNClasses == {"Multiply", "Add", "L2Loss"}

NextFFN ==
    \/ NewVar(FFNData, FFNMaxVars)
    \/ NewFFN(FFNClasses, FFNMaxLayers)
    \/ FFNCall(FFNMaxNodes)
    \/ FFNBack(FFNMaxBacks)
    \/ FFNReset

SpecFFN == Init /\ [][NextFFN]_vars

(***************************************************************************)
(* Optimizers.  opt is the optimizer constructed: its class (GD and Adam   *)
(* of optimization.py, training.GD and training.Adam of training.py), its  *)
(* params (node positions), the moving averages m and r, one per           *)
(* parameter, and the number of steps taken.  A step state is              *)
(* [ok, h, m, r].                                                          *)
(***************************************************************************)
learnRate == <<1, 10>>
momentum == <<9, 10>>
rms == <<999, 1000>>

\* self.m[i] = self.momentum * self.m[i] + (1 - self.momentum) * p.g
Momentum_assign(st, i, m) ==
    IF m.nd < 0 THEN [st EXCEPT !.ok = FALSE] ELSE [st EXCEPT !.m[i] = m]

Momentum_update(st, p, i) ==
    Momentum_assign(st, i, NpAdd(NpMul(Arr0(momentum), st.m[i]),
                                 NpMul(Arr0(RSub(R(1), momentum)), st.h[p].g)))

\* (mutant) p.data is changed in place, the setter is not entered
Data_isub_inPlace(st, p, v) ==
    IF ~st.ok THEN st
    ELSE LET d == ISub(st.h[p].data, v)
         IN  IF d.nd < 0 THEN [st EXCEPT !.ok = FALSE]
             ELSE [st EXCEPT !.h[p].data = d]

\* p.data -= v: the array is changed in place and then assigned to p.data,
\* which enters the data setter (and so resets p.g).
Data_isub(st, p, v) ==
    IF ~st.ok THEN st
    ELSE LET d == ISub(st.h[p].data, v)
         IN  IF d.nd < 0 THEN [st EXCEPT !.ok = FALSE]
             ELSE [st EXCEPT !.h = setData(st.h, p, d)]

\* The body of the loop of GD.step for the parameter at position i.
GD_apply(st, p, i) == Data_isub(st, p, NpMul(Arr0(learnRate), st.m[i]))

GD_step(st, params, i) == GD_apply(Momentum_update(st, params[i], i), params[i], i)

\* self.r[i] = self.rms * self.r[i] + (1 - self.rms) * p.g**2
Rms_assign(st, i, r) ==
    IF ~st.ok \/ r.nd < 0 THEN [st EXCEPT !.ok = FALSE] ELSE [st EXCEPT !.r[i] = r]

Rms_update(st, p, i) ==
    Rms_assign(st, i, NpAdd(NpMul(Arr0(rms), st.r[i]),
                            NpMul(Arr0(RSub(R(1), rms)), NpMul(st.h[p].g, st.h[p].g))))

\* p.data -= self.learnRate * (self.m[i] / np.sqrt(self.r[i] + 1e-8))
Adam_apply(st, p, i) ==
    Data_isub(st, p, NpMul(Arr0(learnRate), NpDiv(st.m[i], NpSqrt(AddEps(st.r[i])))))

\* The body of the loop of Adam.step for the parameter at position i.
Adam_step(st, params, i) ==
    Adam_apply(Rms_update(Momentum_update(st, params[i], i), params[i], i), params[i], i)

\* training.py's steps end the loop body with p.reset().
Optimizer_body(cls, st, params, i) ==
    LET s1 == IF cls \in {"GD", "training.GD"} THEN GD_step(st, params, i)
              ELSE Adam_step(st, params, i)
    IN  IF s1.ok /\ cls \in {"training.GD", "training.Adam"}
        THEN [s1 EXCEPT !.h = reset(s1.h, params[i])] ELSE s1

\* for i, p in enumerate(self.params): a statement that raises ends the step.
RECURSIVE Optimizer_step(_, _, _, _)
Optimizer_step(cls, st, params, i) ==
    IF i > Len(params) \/ ~st.ok THEN st
    ELSE Optimizer_step(cls, Optimizer_body(cls, st, params, i), params, i + 1)

OptStep(op, ok, h, o) ==
    /\ heap' = h
    /\ pre' = heap
    /\ last' = Ran(op, 0, ok, None, FALSE)
    /\ opt' = o
    /\ ret' = None
    /\ UNCHANGED <<calls, fwdBatch, topology, layers, nback, nset, gen>>

\* optimizer = cls(params): m and r start as zeros shaped like the values.
NewOptimizer(Classes, maxParams) ==
    /\ opt.cls = "none"
    /\ \E cls \in Classes, len \in 1..maxParams :
         \E params \in [1..len -> {n \in Nodes : ~IsOp(heap, n)}] :
            OptStep("Optimizer", TRUE, heap,
                    [cls |-> cls, params |-> params,
                     m |-> [i \in 1..len |-> ZerosLike(heap[params[i]].data)],
                     r |-> [i \in 1..len |-> ZerosLike(heap[params[i]].data)],
                     steps |-> 0])

\* optimizer.step()
OptimizerStep(cap) ==
    /\ opt.cls # "none"
    /\ opt.steps < cap
    /\ LET st == Optimizer_step(opt.cls, [ok |-> TRUE, h |-> heap, m |-> opt.m, r |-> opt.r],
                                opt.params, 1)
       IN  OptStep("step", st.ok, st.h,
                   [opt EXCEPT !.m = st.m, !.r = st.r, !.steps = @ + 1])

(***************************************************************************)
(* SpecOpt: variables, sums of them, backward passes, an optimizer over     *)
(* some of the variables and its steps.                                    *)
(***************************************************************************)
OptData == {Mat(<<<<2>>>>), Mat(<<<<1, 2>>>>)}
OptClasses == {"GD", "Adam", "training.GD", "training.Adam"}

NextOpt ==
    \/ NewVar(OptData, OptMaxNodes)
    \/ NewAdd(OptMaxNodes)
    \/ Back(OptMaxBacks)
    \/ NewOptimizer(OptClasses, OptMaxParams)
    \/ OptimizerStep(OptMaxSteps)

SpecOpt == Init /\ [][NextOpt]_vars

(***************************************************************************)
(* What the claims speak of.                                               *)
(***************************************************************************)
ParentSet(h, n) == {h[n].parents[i] : i \in 1..Len(h[n].parents)}

\* The nodes reachable from n through parent references, n included.
RECURSIVE Reach(_, _)
Reach(h, n) == {n} \cup UNION {Reach(h, p) : p \in ParentSet(h, n)}

\* The operators v is a parent of.
Consumers(h, v) == {o \in 1..Len(h) : v \in ParentSet(h, o)}

\* No operator below t lists one node twice among its parents.
NoRepeatedParent(h, t) ==
    \A o \in Reach(h, t) : Cardinality(ParentSet(h, o)) = Len(h[o].parents)

AllZero(a) == IsArr(a) /\ \A i \in 1..NRows(a) : \A j \in 1..NCols(a) : a.rows[i][j] = R(0)

\* Before the pass, every node below the terminal t held a zero gradient.
FreshBelow(h, t) == \A n \in Reach(h, t) \ {t} : AllZero(h[n].g)

BackDone == last.op = "back" /\ last.ok

\* What operator o's local backward step adds to a zero gradient of v,
\* given the gradient o holds in h.
Contribution(h, o, v) ==
    LocalBack([ok |-> TRUE,
               h |-> [h EXCEPT ![v].g = ZerosLike(h[v].data)],
               calls |-> NoCalls(h)], o).h[v].g

\* The pass that led to the current state, with the operator parents of
\* each node visited in the reverse of the order listed.
ReversedPass ==
    BackNode([ok |-> TRUE,
              h |-> [pre EXCEPT ![last.n].g = OnesLike(pre[last.n].data)],
              calls |-> NoCalls(pre)], last.n, TRUE)

(***************************************************************************)
(* C1: in one backward pass started by back() on a terminal operator, the  *)
(* local backward step of every operator reachable from the terminal runs  *)
(* exactly once, also when the operator is a parent of two operators.      *)
(* Stated for graphs in which no operator lists a node twice, so that a    *)
(* violation is a diamond.                                                 *)
(***************************************************************************)
C1_EachOperatorBackOnce ==
    (BackDone /\ NoRepeatedParent(heap, last.n)) =>
        \A n \in Reach(heap, last.n) : IsOp(heap, n) => calls[n] = 1

(***************************************************************************)
(* C2: after a completed backward pass over fresh (zero) gradients, the    *)
(* gradient of a variable that is a parent of two operators below the      *)
(* terminal is the sum of the two operators' local contributions.          *)
(***************************************************************************)
C2_SharedVariableSumsContributions ==
    (BackDone /\ FreshBelow(pre, last.n) /\ NoRepeatedParent(heap, last.n)) =>
        \A v \in Reach(heap, last.n) : \A a, b \in Reach(heap, last.n) :
            (heap[v].kind = "NetVar" /\ a # b /\ Consumers(heap, v) = {a, b}) =>
                heap[v].g = NpAdd(Contribution(heap, a, v), Contribution(heap, b, v))

(***************************************************************************)
(* C3: the gradients a backward pass leaves do not depend on the order in  *)
(* which the operator parents of a node are visited: the pass with every   *)
(* visiting order reversed completes with the same gradient on every node. *)
(***************************************************************************)
C3_VisitOrderIrrelevant ==
    BackDone =>
        /\ ReversedPass.ok
        /\ \A n \in Nodes : ReversedPass.h[n].g = heap[n].g

(***************************************************************************)
(* C4: FFN.back(reset=True) zeroes the gradient of every variable of the   *)
(* network, then runs the pass from the last layer to completion, so the   *)
(* variables' gradients afterwards are those of this pass alone.  Stated   *)
(* for calls on constructed layers where the pass from zeroed variables    *)
(* completes.                                                              *)
(***************************************************************************)
ZeroedVars == 
    [n \in 1..Len(pre) |->
        IF n \in FFN_vars(pre, topology)
        THEN [pre[n] EXCEPT !.g = resetG(pre[n].data)] ELSE pre[n]]

ThisPassAlone == NetOp_backFrom(ZeroedVars, layers[Len(layers)])

C4_BackResetGivesThisPassOnly ==
    (last.op = "FFN.back" /\ last.reset /\ layers # <<>> /\ ThisPassAlone.ok) =>
        /\ last.ok
        /\ \A v \in FFN_vars(heap, topology) : heap[v].g = ThisPassAlone.h[v].g

(***************************************************************************)
(* C5: after construction, setValue, reset() and every completed backward  *)
(* pass, in any sequence, every node's gradient has the shape of its value *)
(* (or both are absent).                                                   *)
(***************************************************************************)
HasShapeOfValue(node) ==
    IF node.data.nd < 0 THEN node.g = None
    ELSE IsArr(node.g) /\ Shape(node.g) = Shape(node.data)

C5_GradientShapeOfValue ==
    last.ok => \A n \in Nodes : HasShapeOfValue(heap[n])

(***************************************************************************)
(* C6: setting a node's value leaves its gradient all zeros with the shape *)
(* of the new value (absent when the value is absent), whatever it held    *)
(* before; and after reset() a second reset() changes nothing.             *)
(***************************************************************************)
ZeroShapedLikeValue(node) ==
    IF node.data.nd < 0 THEN node.g = None
    ELSE AllZero(node.g) /\ Shape(node.g) = Shape(node.data)

C6_SetValueZeroes_ResetIdempotent ==
    /\ last.op = "setValue" =>
          /\ heap[last.n].data = AsArray2(last.arg)
          /\ ZeroShapedLikeValue(heap[last.n])
    /\ last.op = "reset" =>
          /\ ZeroShapedLikeValue(heap[last.n])
          /\ reset(heap, last.n) = heap

C6_Witness ==
    /\ last.op = "setValue"
    /\ IsArr(pre[last.n].g) /\ ~AllZero(pre[last.n].g)
    /\ IsArr(heap[last.n].data)
    /\ Shape(heap[last.n].data) # Shape(pre[last.n].data)

(***************************************************************************)
(* C7: a backward pass changes gradients only: the nodes are the same, and *)
(* every node's value, parent list and cache are what they were before     *)
(* the pass.                                                               *)
(***************************************************************************)
C7_BackChangesGradientsOnly ==
    last.op = "back" =>
        /\ Len(heap) = Len(pre)
        /\ \A n \in Nodes :
              /\ heap[n].kind = pre[n].kind
              /\ heap[n].data = pre[n].data
              /\ heap[n].parents = pre[n].parents
              /\ heap[n].cache = pre[n].cache

C7_Witness ==
    /\ BackDone
    /\ heap[last.n].kind = "Multiply"
    /\ \E n \in Nodes \ {last.n} : heap[n].g # pre[n].g

(***************************************************************************)
(* C8: Multiply(x, w) has value x.w; its local backward adds g.wT to x's   *)
(* gradient and xT.g to w's, g being the node's own gradient; for          *)
(* x = [[1,2]], w = [[1],[1]] and seed [[1]]: value [[3]], x's gradient    *)
(* [[1,1]], w's gradient [[1],[2]].  What a parent receives is stated for  *)
(* a node visited once in the pass and a parent that no other visited      *)
(* operator has as a parent (its gradient changes by this step alone).     *)
(***************************************************************************)
OnlyVisitedConsumer(v, n) ==
    \A m \in Nodes : (calls[m] >= 1 /\ v \in ParentSet(heap, m)) => m = n

C8_Multiply ==
    /\ \A n \in Nodes : heap[n].kind = "Multiply" =>
          heap[n].data = MatMul(heap[heap[n].parents[1]].data,
                                heap[heap[n].parents[2]].data)
    /\ BackDone => \A n \in Nodes : (heap[n].kind = "Multiply" /\ calls[n] = 1) =>
          LET x == heap[n].parents[1]
              w == heap[n].parents[2]
              dx == MatMul(heap[n].g, Transpose(heap[w].data))
              dw == MatMul(Transpose(heap[x].data), heap[n].g)
          IN  /\ (x # w /\ OnlyVisitedConsumer(x, n)) => heap[x].g = NpAdd(pre[x].g, dx)
              /\ (x # w /\ OnlyVisitedConsumer(w, n)) => heap[w].g = NpAdd(pre[w].g, dw)
              /\ (x = w /\ OnlyVisitedConsumer(x, n)) =>
                     heap[x].g = NpAdd(NpAdd(pre[x].g, dx), dw)
    /\ (BackDone /\ heap[last.n].kind = "Multiply") =>
          LET x == heap[last.n].parents[1]
              w == heap[last.n].parents[2]
          IN  (/\ heap[x].data = Mat(<<<<1, 2>>>>) /\ AllZero(pre[x].g)
               /\ heap[w].data = Mat(<<<<1>>, <<1>>>>) /\ AllZero(pre[w].g)
               /\ OnlyVisitedConsumer(x, last.n) /\ OnlyVisitedConsumer(w, last.n)) =>
                  /\ heap[last.n].data = Mat(<<<<3>>>>)
                  /\ heap[x].g = Mat(<<<<1, 1>>>>)
                  /\ heap[w].g = Mat(<<<<1>>, <<2>>>>)

C8_Witness ==
    /\ BackDone
    /\ heap[last.n].kind = "Multiply"
    /\ heap[heap[last.n].parents[1]].data = Mat(<<<<1, 2>>>>)
    /\ heap[heap[last.n].parents[2]].data = Mat(<<<<1>>, <<1>>>>)
    /\ heap[heap[last.n].parents[2]].g = Mat(<<<<1>>, <<2>>>>)

(***************************************************************************)
(* C9: back() on a terminal L2Loss(p, t) sets the loss node's gradient to  *)
(* all ones of its shape, whatever it held, then adds g.(p-t)/batchSize to *)
(* p's gradient and subtracts it from t's; for p = [[2]], t = [[0]] the    *)
(* value is 2, p's gradient [[2]] and t's [[-2]].  What p and t receive is *)
(* stated when no other visited operator has them as a parent.             *)
(***************************************************************************)
AllOnes(a) == IsArr(a) /\ \A i \in 1..NRows(a) : \A j \in 1..NCols(a) : a.rows[i][j] = R(1)

C9_L2Loss ==
    (BackDone /\ heap[last.n].kind = "L2Loss") =>
        LET n == last.n
            p == heap[n].parents[1]
            t == heap[n].parents[2]
            dx == NpDiv(NpMul(heap[n].g, NpSub(heap[p].data, heap[t].data)),
                        Arr0(R(NRows(heap[t].data))))
        IN  /\ AllOnes(heap[n].g) /\ Shape(heap[n].g) = Shape(heap[n].data)
            /\ (p # t /\ OnlyVisitedConsumer(p, n)) => heap[p].g = NpAdd(pre[p].g, dx)
            /\ (p # t /\ OnlyVisitedConsumer(t, n)) => heap[t].g = NpSub(pre[t].g, dx)
            /\ (p = t /\ OnlyVisitedConsumer(p, n)) => heap[p].g = pre[p].g
            /\ (/\ heap[p].data = Mat(<<<<2>>>>) /\ AllZero(pre[p].g)
                /\ heap[t].data = Mat(<<<<0>>>>) /\ AllZero(pre[t].g)
                /\ OnlyVisitedConsumer(p, n) /\ OnlyVisitedConsumer(t, n)) =>
                   /\ heap[n].data = Mat(<<<<2>>>>)
                   /\ heap[p].g = Mat(<<<<2>>>>)
                   /\ heap[t].g = Mat(<<<<-2>>>>)

C9_Witness ==
    /\ BackDone
    /\ heap[last.n].kind = "L2Loss"
    /\ heap[heap[last.n].parents[1]].data = Mat(<<<<2>>>>)
    /\ heap[heap[last.n].parents[2]].data = Mat(<<<<0>>>>)
    /\ heap[heap[last.n].parents[2]].g = Mat(<<<<-2>>>>)

(***************************************************************************)
(* C10: Dropout's value is input.mask/keepProb for the mask drawn at       *)
(* forward time, and its backward step adds (upstream gradient . that      *)
(* mask) to the input's gradient: no keepProb factor, the mask not         *)
(* redrawn.                                                                *)
(***************************************************************************)
IsMaskOf(m, a) ==
    /\ m.nd = 2 /\ Shape(m) = Shape(a)
    /\ \A i \in 1..NRows(m) : \A j \in 1..NCols(m) : m.rows[i][j] \in {R(0), R(1)}

C10_Dropout ==
    /\ (last.op = "Dropout" /\ last.ok) =>
          LET n == last.n
              x == heap[n].parents[1]
              mask == heap[n].cache.arrs[1]
          IN  /\ IsMaskOf(mask, heap[x].data)
              /\ heap[n].data = NpDiv(NpMul(heap[x].data, mask), last.arg)
    /\ BackDone => \A n \in Nodes : (heap[n].kind = "Dropout" /\ calls[n] = 1) =>
          LET x == heap[n].parents[1]
              mask == heap[n].cache.arrs[1]
          IN  /\ mask = pre[n].cache.arrs[1]
              /\ \E k \in OpsKeep :
                    heap[n].data = NpDiv(NpMul(heap[x].data, mask), Arr0(k))
              /\ OnlyVisitedConsumer(x, n) =>
                    heap[x].g = NpAdd(pre[x].g, NpMul(heap[n].g, mask))

C10_Witness ==
    /\ BackDone
    /\ heap[last.n].kind = "Dropout"
    /\ heap[last.n].cache.arrs[1] = Mat(<<<<1, 0>>>>)
    /\ heap[heap[last.n].parents[1]].g = Mat(<<<<1, 0>>>>)

(***************************************************************************)
(* C11: every forward call of an FFN rebuilds the chain from the topology: *)
(* after a call that returned, whatever calls came before, layers holds    *)
(* one operator per topology entry, in topology order, each constructed by *)
(* this call, of the entry's class, with the previous layer (the call's    *)
(* input for the first) as first parent and the entry's arguments after    *)
(* it, and the call returned the last layer's value.  No layer of an       *)
(* earlier call is kept, also when the call raised.                        *)
(***************************************************************************)
C11_ForwardRebuildsLayers ==
    /\ last.op = "FFN.call" =>
          \A i \in 1..Len(layers) : layers[i] > Len(pre)
    /\ (last.op = "FFN.call" /\ last.ok) =>
          /\ Len(layers) = Len(topology)
          /\ Len(heap) = Len(pre) + Len(topology)
          /\ \A i \in 1..Len(layers) :
                /\ layers[i] = Len(pre) + i
                /\ heap[layers[i]].kind = topology[i].cls
                /\ heap[layers[i]].parents =
                      <<IF i = 1 THEN last.n ELSE layers[i - 1]>> \o topology[i].args
          /\ ret = heap[layers[Len(layers)]].data

C11_Witness ==
    /\ last.op = "FFN.call" /\ last.ok
    /\ layers # <<>>
    /\ \E n \in 1..Len(pre) : IsOp(pre, n)
    /\ IsArr(ret)

(***************************************************************************)
(* C12: after a completed step of an optimizer (GD or Adam, of either      *)
(* file) every parameter's value is its value before the step minus the    *)
(* update computed from the gradient it held before the step (GD:          *)
(* learnRate.m, Adam: learnRate.m/sqrt(r + 1e-8), m and r the moving       *)
(* averages advanced with that gradient), and every parameter's gradient   *)
(* is all zeros of the value's shape, so that a backward pass right after  *)
(* the step leaves on a parameter what the pass adds to zero.  For GD,     *)
(* value [[2]], gradient [[2]] and m = 0: value [[99/50]].                 *)
(***************************************************************************)
NextM(i, g) == NpAdd(NpMul(Arr0(<<9, 10>>), opt.m[i]), NpMul(Arr0(<<1, 10>>), g))

NextR(i, g) == NpAdd(NpMul(Arr0(<<999, 1000>>), opt.r[i]), NpMul(Arr0(<<1, 1000>>), NpMul(g, g)))

StepUpdate(i, g) ==
    IF opt.cls \in {"GD", "training.GD"}
    THEN NpMul(Arr0(<<1, 10>>), NextM(i, g))
    ELSE NpMul(Arr0(<<1, 10>>), NpDiv(NextM(i, g), NpSqrt(AddEps(NextR(i, g)))))

C12_StepConsumesGradient ==
    [][ /\ (last'.op = "step" /\ last'.ok) =>
              \A i \in 1..Len(opt.params) :
                  LET p == opt.params[i]
                  IN  /\ AllZero(heap'[p].g)
                      /\ Shape(heap'[p].g) = Shape(heap'[p].data)
                      /\ (\A j \in 1..(i - 1) : opt.params[j] # p) =>
                            heap'[p].data = NpSub(heap[p].data, StepUpdate(i, heap[p].g))
                      /\ (/\ opt.cls \in {"GD", "training.GD"}
                          /\ heap[p].data = Mat(<<<<2>>>>) /\ heap[p].g = Mat(<<<<2>>>>)
                          /\ AllZero(opt.m[i])) =>
                            heap'[p].data = Arr2(<<<<<<99, 50>>>>>>)
        /\ (last.op = "step" /\ last.ok /\ last'.op = "back" /\ last'.ok) =>
              \A i \in 1..Len(opt.params) :
                  LET p == opt.params[i]
                  IN  heap'[p].g =
                         NetOp_backFrom([heap EXCEPT ![p].g = resetG(heap[p].data)],
                                        last'.n).h[p].g
      ]_vars

C12_Witness ==
    /\ last.op = "step" /\ last.ok
    /\ opt.cls = "GD"
    /\ pre[opt.params[1]].g = Mat(<<<<2>>>>)
    /\ heap[opt.params[1]].g = Mat(<<<<0>>>>)
    /\ heap[opt.params[1]].data = Arr2(<<<<<<99, 50>>>>>>)

(***************************************************************************)
(* C13: when an operator's construction fails during a forward call of an  *)
(* FFN, the call leaves no trace: layers is what it was before the call,   *)
(* and every node that existed before the call has the value and the       *)
(* gradient it had.                                                        *)
(***************************************************************************)
C13_FailedForwardLeavesNoTrace ==
    [][ (last'.op = "FFN.call" /\ ~last'.ok) =>
            /\ layers' = layers
            /\ \A n \in 1..Len(heap) :
                  heap'[n].data = heap[n].data /\ heap'[n].g = heap[n].g
      ]_vars

(***************************************************************************)
(* C14: the local backward of LeakyReLU(x, s) adds to x's gradient, element *)
(* by element, g where x > 0 and s.g elsewhere, g being the node's own     *)
(* gradient, whatever g is.  Stated for a node visited once whose input    *)
(* no other visited operator has as a parent.                              *)
(***************************************************************************)
C14_LReLU ==
    BackDone => \A n \in Nodes :
        (heap[n].kind = "LReLU" /\ calls[n] = 1
            /\ OnlyVisitedConsumer(heap[n].parents[1], n)) =>
            LET x == heap[n].parents[1]
                s == heap[n].cache.arrs[1]
            IN  heap[x].g =
                   NpAdd(pre[x].g,
                         NpWhere(NpGreater(heap[x].data, Arr0(R(0))),
                                 heap[n].g, NpMul(s, heap[n].g)))

(***************************************************************************)
(* C15: the local backward of HuberLoss(p, t, d) adds g.c/batchSize to p's *)
(* gradient and subtracts it from t's, c being p - t where |p - t| <= d    *)
(* and d.sign(p - t) elsewhere and g the loss node's own gradient,         *)
(* whatever g is.  Stated for a node visited once whose gradient is a      *)
(* single number like its value, p and t distinct and parents of no other  *)
(* visited operator, and a target whose number of rows is the one it had   *)
(* at construction.                                                        *)
(***************************************************************************)
HuberClamped(n) ==
    NpWhere(NpLessEqual(heap[n].cache.arrs[2], heap[n].cache.arrs[3]),
            heap[n].cache.arrs[1],
            NpMul(heap[n].cache.arrs[3], NpSign(heap[n].cache.arrs[1])))

C15_HuberLoss ==
    BackDone => \A n \in Nodes :
        (/\ heap[n].kind = "HuberLoss" /\ calls[n] = 1
         /\ Shape(heap[n].g) = <<1, 1>>
         /\ heap[n].parents[1] # heap[n].parents[2]
         /\ OnlyVisitedConsumer(heap[n].parents[1], n)
         /\ OnlyVisitedConsumer(heap[n].parents[2], n)
         /\ PyLen(heap[heap[n].parents[2]].data) = fwdBatch[n]) =>
            LET p == heap[n].parents[1]
                t == heap[n].parents[2]
                dx == NpDiv(NpMul(heap[n].g, HuberClamped(n)), Arr0(R(fwdBatch[n])))
            IN  /\ heap[p].g = NpAdd(pre[p].g, dx)
                /\ heap[t].g = NpSub(pre[t].g, dx)

(***************************************************************************)
(* C16: the backward step of a loss divides by the batch size captured at  *)
(* forward time, also when the target's value was replaced by one with     *)
(* another number of rows between construction and back().  Stated for     *)
(* back() on a terminal L2Loss or HuberLoss (its gradient is all ones),    *)
(* p and t distinct and parents of no other visited operator: p receives   *)
(* the numerator of the step divided by the forward batch size.            *)
(***************************************************************************)
LossNumerator(n) ==
    IF heap[n].kind = "L2Loss"
    THEN NpSub(heap[heap[n].parents[1]].data, heap[heap[n].parents[2]].data)
    ELSE HuberClamped(n)

C16_BatchSizeOfForwardTime ==
    (/\ BackDone /\ heap[last.n].kind \in {"L2Loss", "HuberLoss"}
     /\ heap[last.n].parents[1] # heap[last.n].parents[2]
     /\ OnlyVisitedConsumer(heap[last.n].parents[1], last.n)) =>
        heap[heap[last.n].parents[1]].g =
            NpAdd(pre[heap[last.n].parents[1]].g,
                  NpDiv(LossNumerator(last.n), Arr0(R(fwdBatch[last.n]))))

(***************************************************************************)
(* C17: FFN.back(reset=False) accumulates this pass with the earlier ones: *)
(* after a completed call, every node below the last layer holds the       *)
(* gradient it held before the call plus the gradient one backward pass    *)
(* from the last layer gives when every gradient starts at zero, also when *)
(* back is called again on the same layers with no forward call between.   *)
(***************************************************************************)
AllGradientsZeroed(h) == [n \in 1..Len(h) |-> [h[n] EXCEPT !.g = resetG(h[n].data)]]

OnePassFromZero == NetOp_backFrom(AllGradientsZeroed(pre), layers[Len(layers)])

C17_BackNoResetAccumulates ==
    (last.op = "FFN.back" /\ ~last.reset /\ last.ok) =>
        \A n \in Reach(heap, layers[Len(layers)]) \ {layers[Len(layers)]} :
            heap[n].g = NpAdd(pre[n].g, OnePassFromZero.h[n].g)

(***************************************************************************)
(* C18: a backward pass started by back() on a node of a graph built by    *)
(* constructing operators from existing nodes terminates: every parent of  *)
(* a node was constructed before it (no node is its own ancestor), a       *)
(* variable has no parents, and the recursion goes from an operator to its *)
(* operator parents only: the number of times a node's backward step runs  *)
(* is at most the number of parent paths from the terminal to it (exactly  *)
(* that when the pass completes), and zero for variables.                  *)
(***************************************************************************)
RECURSIVE SumSeq(_)
SumSeq(q) == IF q = <<>> THEN 0 ELSE Head(q) + SumSeq(Tail(q))

\* The number of paths from node a to node b along parent references.
RECURSIVE PathCount(_, _, _)
PathCount(h, a, b) ==
    IF a = b THEN 1
    ELSE SumSeq([i \in 1..Len(h[a].parents) |-> PathCount(h, h[a].parents[i], b)])

C18_BackTerminates ==
    /\ \A n \in Nodes :
          /\ \A i \in 1..Len(heap[n].parents) : heap[n].parents[i] < n
          /\ heap[n].kind = "NetVar" => heap[n].parents = <<>>
    /\ last.op = "back" =>
          /\ Len(calls) = Len(heap)
          /\ \A n \in Nodes :
                /\ heap[n].kind = "NetVar" => calls[n] = 0
                /\ calls[n] <= PathCount(heap, last.n, n)
                /\ (last.ok /\ IsOp(heap, n)) => calls[n] = PathCount(heap, last.n, n)

C18_Witness ==
    /\ BackDone
    /\ \E a \in Nodes : \E v \in Nodes :
          /\ a \in ParentSet(heap, last.n) /\ IsOp(heap, a) /\ calls[a] >= 1
          /\ v \in ParentSet(heap, a) /\ ~IsOp(heap, v) /\ heap[v].g # pre[v].g

(***************************************************************************)
(* C19: Add(x, b) has value x + b, b broadcast over the batch rows; its    *)
(* local backward adds g unchanged to x's gradient and the column-wise sum *)
(* of g over the rows to b's, so each parent's gradient keeps the parent's *)
(* shape.  For x = [[1],[1]], b = [[2]] and seed ones: value [[3],[3]],    *)
(* x's gradient [[1],[1]], b's [[2]].  What a parent receives is stated    *)
(* for a node visited once, a bias of one row, and a parent that no other  *)
(* visited operator has as a parent.                                       *)
(***************************************************************************)
C19_Add ==
    /\ \A n \in Nodes : heap[n].kind = "Add" =>
          heap[n].data = NpAdd(heap[heap[n].parents[1]].data,
                               heap[heap[n].parents[2]].data)
    /\ BackDone => \A n \in Nodes :
          (heap[n].kind = "Add" /\ calls[n] = 1
              /\ NRows(heap[heap[n].parents[2]].data) = 1) =>
          LET x == heap[n].parents[1]
              b == heap[n].parents[2]
          IN  /\ (x # b /\ OnlyVisitedConsumer(x, n)) =>
                    /\ heap[x].g = NpAdd(pre[x].g, heap[n].g)
                    /\ Shape(heap[x].g) = Shape(heap[x].data)
              /\ (x # b /\ OnlyVisitedConsumer(b, n)) =>
                    /\ heap[b].g = NpAdd(pre[b].g, SumAxis0(heap[n].g))
                    /\ Shape(heap[b].g) = Shape(heap[b].data)
              /\ (x = b /\ OnlyVisitedConsumer(x, n)) =>
                    heap[x].g = NpAdd(NpAdd(pre[x].g, heap[n].g), SumAxis0(heap[n].g))
    /\ (BackDone /\ heap[last.n].kind = "Add") =>
          LET x == heap[last.n].parents[1]
              b == heap[last.n].parents[2]
          IN  (/\ heap[x].data = Mat(<<<<1>>, <<1>>>>) /\ AllZero(pre[x].g)
               /\ heap[b].data = Mat(<<<<2>>>>) /\ AllZero(pre[b].g)
               /\ OnlyVisitedConsumer(x, last.n) /\ OnlyVisitedConsumer(b, last.n)) =>
                  /\ heap[last.n].data = Mat(<<<<3>>, <<3>>>>)
                  /\ heap[x].g = Mat(<<<<1>>, <<1>>>>)
                  /\ heap[b].g = Mat(<<<<2>>>>)

C19_Witness ==
    /\ BackDone
    /\ heap[last.n].kind = "Add"
    /\ heap[heap[last.n].parents[1]].data = Mat(<<<<1>>, <<1>>>>)
    /\ heap[heap[last.n].parents[2]].data = Mat(<<<<2>>>>)
    /\ heap[heap[last.n].parents[2]].g = Mat(<<<<2>>>>)

\* The nodes a BatchNorm node n names as its parents.
ParentsOf(n) == {heap[n].parents[i] : i \in 1..Len(heap[n].parents)}

\* The step before was a BatchNorm constructor that returned.
BatchNormBuilt == last.op = "BatchNorm" /\ last.ok

\* 0.9 * (old running value) + 0.1 * (batch statistic), as a node's value
Decayed(old, stat) ==
    AsArray2(NpAdd(NpMul(Arr0(<<9, 10>>), old), NpMul(Arr0(<<1, 10>>), stat)))

\* (d - mean) / sqrt(var + 1e-8) * gamma + beta
Normalized(d, mean, var, gamma, beta) ==
    NpAdd(NpMul(NpDiv(NpSub(d, mean), NpSqrt(AddEps(var))), gamma), beta)

\* mean((d - mean(d)) ** 2) over the rows of d
BatchVar(d) ==
    MeanAxis0(NpMul(NpSub(d, MeanAxis0(d)), NpSub(d, MeanAxis0(d))))

\* useAvg false, the running mean not the input itself and not the running
\* variance: both running values are blended with the batch statistics and
\* the value is normalized with the batch statistics.
BatchStatistics(n, x, avgVar, avgMean) ==
    (~last.arg.useAvg /\ avgMean # x /\ avgMean # avgVar) =>
        /\ heap[avgMean].data = Decayed(pre[avgMean].data, MeanAxis0(pre[x].data))
        /\ heap[avgVar].data = Decayed(pre[avgVar].data, BatchVar(pre[x].data))
        /\ heap[n].data = Normalized(pre[x].data, MeanAxis0(pre[x].data),
                                     BatchVar(pre[x].data),
                                     heap[heap[n].parents[2]].data,
                                     heap[heap[n].parents[3]].data)
        /\ (/\ pre[x].data = Mat(<<<<1>>, <<3>>>>)
            /\ pre[avgMean].data = Mat(<<<<1>>>>)
            /\ pre[avgVar].data = Mat(<<<<1>>>>))
           => /\ heap[avgMean].data = Arr2(<<<<(<<11, 10>>)>>>>)
              /\ heap[avgVar].data = Mat(<<<<1>>>>)

\* useAvg true: no node that existed changes, and the value is normalized
\* with the values of the running nodes.
RunningStatistics(n, x, avgVar, avgMean) ==
    last.arg.useAvg =>
        /\ \A m \in 1..Len(pre) : heap[m] = pre[m]
        /\ heap[n].data = Normalized(pre[x].data, pre[avgMean].data,
                                     pre[avgVar].data,
                                     pre[heap[n].parents[2]].data,
                                     pre[heap[n].parents[3]].data)
        /\ (/\ pre[x].data = Mat(<<<<1>>, <<3>>>>)
            /\ pre[avgMean].data = Mat(<<<<1>>>>)
            /\ pre[avgVar].data = Mat(<<<<1>>>>)
            /\ pre[heap[n].parents[2]].data = Mat(<<<<1>>>>)
            /\ pre[heap[n].parents[3]].data = Mat(<<<<1>>>>))
           => heap[n].data = Mat(<<<<1>>, <<3>>>>)

C20_Construction ==
    BatchNormBuilt =>
        /\ Len(heap[last.n].parents) = 3
        /\ BatchStatistics(last.n, heap[last.n].parents[1],
                           last.arg.avgVar, last.arg.avgMean)
        /\ RunningStatistics(last.n, heap[last.n].parents[1],
                             last.arg.avgVar, last.arg.avgMean)

\* A backward pass from a BatchNorm node leaves every node that is neither
\* the node nor one of its parents as it was.
C20_BackFrame ==
    (last.op = "back" /\ heap[last.n].kind = "BatchNorm") =>
        \A m \in Nodes \ ({last.n} \cup ParentsOf(last.n)) :
            heap[m] = pre[m]

\* The backward pass that follows the construction: a running node that is
\* not a parent keeps its gradient and its value.
C20_NoGradient ==
    (BatchNormBuilt /\ last'.op = "back" /\ last'.n = last.n) =>
        \A r \in {last.arg.avgVar, last.arg.avgMean} \ ParentsOf(last.n) :
            /\ heap'[r].g = heap[r].g
            /\ heap'[r].data = heap[r].data

\* C20: BatchNorm with useAvg false replaces the running mean and variance by
\* 0.9 * old + 0.1 * batch statistic and normalizes with the batch
\* statistics; with useAvg true it normalizes with the running statistics
\* and leaves both running nodes unchanged; in both cases the parents are
\* x, gamma and beta only and the backward pass gives the running nodes no
\* gradient.
C20_BatchNorm ==
    /\ [](C20_Construction /\ C20_BackFrame)
    /\ [][C20_NoGradient]_vars

\* A backward pass ran from a BatchNorm node built with useAvg false over
\* the batch [[1], [3]]: a node that is not a parent holds the blended mean
\* 0.9 * 1 + 0.1 * 2 and a zero gradient.
C20_Witness ==
    /\ BackDone
    /\ heap[last.n].kind = "BatchNorm"
    /\ heap[heap[last.n].parents[1]].data = Mat(<<<<1>>, <<3>>>>)
    /\ heap[heap[last.n].parents[3]].data = Mat(<<<<1>>>>)
    /\ heap[heap[last.n].parents[3]].g = Mat(<<<<2>>>>)
    /\ \E m \in Nodes \ ParentsOf(last.n) :
          /\ heap[m].data = Arr2(<<<<(<<11, 10>>)>>>>)
          /\ heap[m].g = Mat(<<<<0>>>>)

(***************************************************************************)
(* C21: miniBatch(data, count=c) with 1 <= c <= len(data[0]) generates     *)
(* exactly c batches; the batches are consecutive slices that cover inputs *)
(* and targets in order without gap or overlap, all of one fixed size      *)
(* except the last, which is not larger.  Stated for an exhausted          *)
(* generator that was given count only and as many targets as inputs.      *)
(***************************************************************************)
RECURSIVE Concat(_, _)
Concat(out, k) == IF out = <<>> THEN <<>> ELSE out[1][k] \o Concat(Tail(out), k)

\* The generator was called with count only, 1 <= count <= len(data[0]),
\* and has been run to its end.
CountExhausted ==
    /\ gen.state = "done"
    /\ gen.size = 0
    /\ 1 <= gen.count /\ gen.count <= Len(gen.data[1])
    /\ Len(gen.data[2]) = Len(gen.data[1])

\* Every batch starts where the one before ended, and together they are the
\* inputs and the targets.
BatchesCover ==
    /\ Concat(gen.out, 1) = gen.data[1]
    /\ Concat(gen.out, 2) = gen.data[2]
    /\ \A k \in 1..Len(gen.out) :
          /\ Len(gen.out[k][1]) >= 1
          /\ Len(gen.out[k][2]) = Len(gen.out[k][1])
          /\ gen.out[k][3] = Len(Concat(SubSeq(gen.out, 1, k - 1), 1))

\* One size for all batches but the last, which is not larger.
BatchesOneSize ==
    \E b \in 1..Len(gen.data[1]) :
        /\ \A k \in 1..(Len(gen.out) - 1) : Len(gen.out[k][1]) = b
        /\ Len(gen.out[Len(gen.out)][1]) <= b

C21_MiniBatchCount ==
    CountExhausted =>
        /\ Len(gen.out) = gen.count
        /\ BatchesCover
        /\ BatchesOneSize

====
